---- MODULE Spec2Model ----
(***************************************************************************)
(* A model of clean_data.py: SeattleParkingCleaner.                        *)
(*                                                                         *)
(* Values.  A raw attribute value is a JSON value: Absent (null / NaN),    *)
(* Txt(s) with s a sequence of one-character strings, or Dec(m, e), the    *)
(* decimal number m / 10^e.  Integers produced by the cleaners are         *)
(* IntV(n).  Geometry is Null, or a point, or an axis-parallel two-point    *)
(* line, on an integer lattice; one lattice unit is 0.00125 degrees.       *)
(***************************************************************************)
EXTENDS Integers, Sequences, FiniteSets, TLC

VARIABLES
    rawDir,       \* raw_dir: source name -> NoFile | Unreadable | table
    cleanDir,     \* clean_dir: output name -> NoFile | table
    emptyWriteRaises, \* whether this build's to_file raises on an empty frame
    pc,           \* run_all's position
    runNo,        \* number of the current run_all call
    stagesRun,    \* the stages the current run has executed, in order
    ret,          \* what each stage of the current run returned
    report,       \* verify_all_datasets' line per file in the current run
    prevDir,      \* clean_dir as the previous run_all left it
    inp,          \* the argument a helper is called with
    out           \* what the helper returned

vars == <<rawDir, cleanDir, emptyWriteRaises, pc, runNo, stagesRun, ret, report,
          prevDir, inp, out>>

----------------------------------------------------------------------------
(* Values *)

Absent == [k |-> "absent"]
Txt(s) == [k |-> "text", s |-> s]
Dec(m, e) == [k |-> "num", m |-> m, e |-> e]
IntV(n) == [k |-> "int", n |-> n]

IsAbsent(v) == v.k = "absent"

RECURSIVE Pow10(_)
Pow10(e) == IF e = 0 THEN 1 ELSE 10 * Pow10(e - 1)

Abs(n) == IF n < 0 THEN -n ELSE n

----------------------------------------------------------------------------
(* Text: Python str operations on sequences of characters *)

LowerLetters == <<"a","b","c","d","e","f","g","h","i","j","k","l","m",
                  "n","o","p","q","r","s","t","u","v","w","x","y","z">>
UpperLetters == <<"A","B","C","D","E","F","G","H","I","J","K","L","M",
                  "N","O","P","Q","R","S","T","U","V","W","X","Y","Z">>
Digits == <<"0","1","2","3","4","5","6","7","8","9">>

IsDigit(c) == \E i \in 1..10 : Digits[i] = c
DigitVal(c) == (CHOOSE i \in 1..10 : Digits[i] = c) - 1
IsSpace(c) == c \in {" ", "\t", "\n"}

UpperChar(c) ==
    IF \E i \in 1..26 : LowerLetters[i] = c
    THEN UpperLetters[CHOOSE i \in 1..26 : LowerLetters[i] = c]
    ELSE c
LowerChar(c) ==
    IF \E i \in 1..26 : UpperLetters[i] = c
    THEN LowerLetters[CHOOSE i \in 1..26 : UpperLetters[i] = c]
    ELSE c

\* str.upper(), str.lower()
Upper(s) == [i \in 1..Len(s) |-> UpperChar(s[i])]
Lower(s) == [i \in 1..Len(s) |-> LowerChar(s[i])]

\* str.strip(): leading and trailing whitespace removed
Strip(s) ==
    LET keep == {i \in 1..Len(s) : ~IsSpace(s[i])}
    IN  IF keep = {} THEN <<>>
        ELSE LET lo == CHOOSE i \in keep : \A j \in keep : i <= j
                 hi == CHOOSE i \in keep : \A j \in keep : i >= j
             IN  SubSeq(s, lo, hi)

\* `sub in s`
Contains(s, sub) ==
    \E i \in 1..(Len(s) - Len(sub) + 1) : SubSeq(s, i, i + Len(sub) - 1) = sub

\* s.split()[0] for a stripped, non-empty s: the text before the first whitespace
FirstToken(s) ==
    LET sp == {i \in 1..Len(s) : IsSpace(s[i])}
    IN  IF sp = {} THEN s
        ELSE SubSeq(s, 1, (CHOOSE i \in sp : \A j \in sp : i <= j) - 1)

AllDigits(s) == \A i \in 1..Len(s) : IsDigit(s[i])

\* int(s) for a text of digits
RECURSIVE DigitsToNat(_)
DigitsToNat(s) ==
    IF s = <<>> THEN 0
    ELSE 10 * DigitsToNat(SubSeq(s, 1, Len(s) - 1)) + DigitVal(s[Len(s)])

\* '%02d' % n, for 0 <= n <= 99
TwoDigits(n) == <<Digits[(n \div 10) + 1], Digits[(n % 10) + 1]>>

\* str(n) for a natural number
RECURSIVE NatToText(_)
NatToText(n) ==
    IF n < 10 THEN <<Digits[n + 1]>>
    ELSE Append(NatToText(n \div 10), Digits[(n % 10) + 1])

\* characters of s satisfying a class, in order: re.sub of the complement with ''
RECURSIVE KeepDigitsAndDots(_)
KeepDigitsAndDots(s) ==
    IF s = <<>> THEN <<>>
    ELSE LET rest == KeepDigitsAndDots(Tail(s))
         IN  IF IsDigit(Head(s)) \/ Head(s) = "." THEN <<Head(s)>> \o rest ELSE rest

\* re.findall(r'\d+', s)[0]: the first maximal run of digits, <<>> if there is none
FirstDigitRun(s) ==
    LET ds == {i \in 1..Len(s) : IsDigit(s[i])}
    IN  IF ds = {} THEN <<>>
        ELSE LET lo == CHOOSE i \in ds : \A j \in ds : i <= j
                 ends == {j \in lo..Len(s) : \A i \in lo..j : IsDigit(s[i])}
                 hi == CHOOSE j \in ends : \A i \in ends : j >= i
             IN  SubSeq(s, lo, hi)

\* str(v) of a raw value: a text as it is, an int as its digits, a float with
\* its decimals
StrOf(v) ==
    IF v.k = "text" THEN v.s
    ELSE LET a == Abs(v.m)
             whole == NatToText(a \div Pow10(v.e))
             frac == [i \in 1..v.e |-> Digits[((a \div Pow10(v.e - i)) % 10) + 1]]
             sign == IF v.m < 0 THEN <<"-">> ELSE <<>>
         IN  IF v.e = 0 THEN sign \o whole ELSE sign \o whole \o <<".">> \o frac

----------------------------------------------------------------------------
(* Helper methods *)

\* float(t) for a text t of digits and dots: Absent where float raises
FloatOf(t) ==
    LET dots == {i \in 1..Len(t) : t[i] = "."}
    IN  IF Cardinality(dots) > 1 \/ Cardinality(dots) = Len(t) THEN Absent
        ELSE IF dots = {} THEN Dec(DigitsToNat(t), 0)
        ELSE LET d == CHOOSE i \in dots : TRUE
             IN  Dec(DigitsToNat(SubSeq(t, 1, d - 1) \o SubSeq(t, d + 1, Len(t))),
                     Len(t) - d)

\* the decimal that the digit run digs and the text after it spell: digs, and
\* the digits after a dot that follows it
DecimalOf(digs, after) ==
    IF Len(after) > 1 /\ Head(after) = "." /\ IsDigit(after[2])
    THEN Dec(DigitsToNat(digs \o FirstDigitRun(Tail(after))),
             Len(FirstDigitRun(Tail(after))))
    ELSE Dec(DigitsToNat(digs), 0)

\* the text of s after its first digit run
AfterFirstDigitRun(s, digs) ==
    SubSeq(s, (CHOOSE i \in 1..Len(s) :
                  /\ SubSeq(s, i, i + Len(digs) - 1) = digs
                  /\ \A j \in 1..(i - 1) : ~IsDigit(s[j])) + Len(digs), Len(s))

\* re.findall(r'\d+\.?\d*', s)[0] as a number; Absent if s has no digit
FirstDecimal(s) ==
    IF FirstDigitRun(s) = <<>> THEN Absent
    ELSE DecimalOf(FirstDigitRun(s), AfterFirstDigitRun(s, FirstDigitRun(s)))

\* int(hours * 60)
HoursToMinutes(h) == IF IsAbsent(h) THEN Absent ELSE IntV((h.m * 60) \div Pow10(h.e))

\* lines 330-341 for the lower-cased, stripped text
ParseTimeLimitText(s) ==
    IF Contains(s, <<"h","o","u","r">>) THEN HoursToMinutes(FirstDecimal(s))
    ELSE IF Contains(s, <<"m","i","n">>)
    THEN IF FirstDigitRun(s) = <<>> THEN Absent
         ELSE IntV(DigitsToNat(FirstDigitRun(s)))
    ELSE IF s # <<>> /\ AllDigits(s) THEN IntV(DigitsToNat(s))
    ELSE Absent

\* _parse_time_limit
ParseTimeLimit(v) ==
    IF IsAbsent(v) \/ v = Txt(<<>>) THEN Absent
    ELSE ParseTimeLimitText(Strip(Lower(StrOf(v))))

\* float(cleaned) if cleaned else None
FloatOrNone(cleaned) == IF cleaned = <<>> THEN Absent ELSE FloatOf(cleaned)

\* _clean_currency
CleanCurrency(v) ==
    IF IsAbsent(v) THEN Absent ELSE FloatOrNone(KeepDigitsAndDots(StrOf(v)))

\* %I of strptime: 1[0-2]|0[1-9]|[1-9]
IsHour12(t) ==
    /\ Len(t) \in {1, 2}
    /\ AllDigits(t)
    /\ DigitsToNat(t) \in 1..12

\* %M of strptime: [0-5]\d|\d
IsMinute(t) ==
    /\ Len(t) \in {1, 2}
    /\ AllDigits(t)
    /\ DigitsToNat(t) \in 0..59

\* the index of the first ':' of t, 0 if it has none
FirstColon(t) ==
    IF \E i \in 1..Len(t) : t[i] = ":"
    THEN CHOOSE i \in 1..Len(t) : t[i] = ":" /\ \A j \in 1..(i - 1) : t[j] # ":"
    ELSE 0

\* t without its trailing whitespace
RStrip(t) ==
    IF \A i \in 1..Len(t) : IsSpace(t[i]) THEN <<>>
    ELSE SubSeq(t, 1, CHOOSE i \in 1..Len(t) :
                         ~IsSpace(t[i]) /\ \A j \in (i + 1)..Len(t) : IsSpace(t[j]))

\* strftime('%H:%M') of the parsed hour (12-hour clock), minute and AM/PM
Format24(hh, mm, pm) ==
    Txt(TwoDigits((DigitsToNat(hh) % 12) + (IF pm THEN 12 ELSE 0))
        \o <<":">> \o TwoDigits(DigitsToNat(mm)))

\* the text before %p matched against '%I' or '%I:%M'
ParseClock(core, colon, pm) ==
    IF colon
    THEN IF /\ FirstColon(core) # 0
            /\ IsHour12(SubSeq(core, 1, FirstColon(core) - 1))
            /\ IsMinute(SubSeq(core, FirstColon(core) + 1, Len(core)))
         THEN Format24(SubSeq(core, 1, FirstColon(core) - 1),
                       SubSeq(core, FirstColon(core) + 1, Len(core)), pm)
         ELSE Absent
    ELSE IF IsHour12(core) THEN Format24(core, <<>>, pm) ELSE Absent

\* datetime.strptime(s, fmt).strftime('%H:%M') for one of the three formats;
\* Absent if strptime raises.  s is stripped and upper-cased.  colon: the
\* format has ':%M'; space: it has whitespace before %p.
ParseFormat(s, colon, space) ==
    IF Len(s) < 3 \/ SubSeq(s, Len(s) - 1, Len(s)) \notin {<<"A","M">>, <<"P","M">>}
    THEN Absent
    ELSE IF space
    THEN IF RStrip(SubSeq(s, 1, Len(s) - 2)) = SubSeq(s, 1, Len(s) - 2) THEN Absent
         ELSE ParseClock(RStrip(SubSeq(s, 1, Len(s) - 2)), colon, s[Len(s) - 1] = "P")
    ELSE ParseClock(SubSeq(s, 1, Len(s) - 2), colon, s[Len(s) - 1] = "P")

\* the first of three results that is not Absent
FirstParsed(a, b, c) == IF ~IsAbsent(a) THEN a ELSE IF ~IsAbsent(b) THEN b ELSE c

\* lines 360-375: parsed is what the loop over the three formats returns
StandardizeParsed(s, parsed) ==
    IF (Contains(s, <<"A","M">>) \/ Contains(s, <<"P","M">>)) /\ ~IsAbsent(parsed)
    THEN parsed
    ELSE IF Contains(s, <<":">>) THEN Txt(FirstToken(s))
    ELSE Absent

\* lines 358-375 for the stripped, upper-cased text
StandardizeText(s) ==
    StandardizeParsed(s, FirstParsed(ParseFormat(s, TRUE, TRUE),
                                     ParseFormat(s, FALSE, FALSE),
                                     ParseFormat(s, TRUE, FALSE)))

\* _standardize_time
StandardizeTime(v) ==
    IF IsAbsent(v) THEN Absent ELSE StandardizeText(Upper(Strip(StrOf(v))))

\* _categorize_price
CategorizePrice(rate) ==
    IF IsAbsent(rate) \/ rate.m = 0 THEN "FREE"
    ELSE IF rate.m < 2 * Pow10(rate.e) THEN "LOW"
    ELSE IF rate.m < 4 * Pow10(rate.e) THEN "MEDIUM"
    ELSE "HIGH"

\* int(numbers[0]) if numbers else None
IntOrNone(numbers) == IF numbers = <<>> THEN Absent ELSE IntV(DigitsToNat(numbers))

\* _clean_capacity
CleanCapacity(v) ==
    IF IsAbsent(v) THEN Absent ELSE IntOrNone(FirstDigitRun(StrOf(v)))

----------------------------------------------------------------------------
(* Files and tables.  A table is a GeoDataFrame: its column names and its   *)
(* rows, each row a record over those columns.                             *)

NoFile == [k |-> "nofile"]
Unreadable == [k |-> "unreadable"]
Table(cols, rows) == [k |-> "table", cols |-> cols, rows |-> rows]

Sources == {"parking_categories", "parking_tiers", "garages"}
Outputs == {"street_parking_detailed", "street_parking_overview",
            "parking_tiers_clean", "garages_clean", "parking_all_points"}

\* to_file(path, driver='GeoJSON') then read_file(path): a GeoJSON file holds
\* features, not a schema, so a frame without rows reads back without its
\* attribute columns
WriteGeoJSON(df) ==
    IF df.rows = <<>> THEN Table({"geometry"}, <<>>) ELSE Table(df.cols, df.rows)

\* to_file raises on a frame without rows in the builds that refuse to write one
WriteRaises(df, ewr) == ewr /\ df.rows = <<>>

\* rows of s satisfying Keep, in order: df[mask]
RECURSIVE SelectRows(_, _)
SelectRows(rows, keep) ==
    IF rows = <<>> THEN <<>>
    ELSE IF 1 \in keep
         THEN <<Head(rows)>> \o SelectRows(Tail(rows), {i - 1 : i \in keep \ {1}})
         ELSE SelectRows(Tail(rows), {i - 1 : i \in keep})

----------------------------------------------------------------------------
(* Geometry *)

Null == [k |-> "null"]
Point(x, y) == [k |-> "Point", valid |-> TRUE, x1 |-> x, y1 |-> y, x2 |-> x, y2 |-> y]
Line(xa, ya, xb, yb) ==
    [k |-> "LineString", valid |-> TRUE, x1 |-> xa, y1 |-> ya, x2 |-> xb, y2 |-> yb]

Min(a, b) == IF a <= b THEN a ELSE b
Max(a, b) == IF a >= b THEN a ELSE b

\* make_valid(g) if not g.is_valid else g
MakeValid(g) == IF g.valid THEN g ELSE [g EXCEPT !.valid = TRUE]

\* geometry.simplify(tolerance, preserve_topology=True): a point or a two-point
\* line has no vertex to drop
Simplify(g) == g

\* geometry.centroid; lattice coordinates are even, so the midpoint is integral
Centroid(g) == Point((g.x1 + g.x2) \div 2, (g.y1 + g.y2) \div 2)

\* box(x, y, x + size, y + size)
Box(x, y, size) ==
    [k |-> "Polygon", valid |-> TRUE, x1 |-> x, y1 |-> y, x2 |-> x + size, y2 |-> y + size]

\* shapely's intersects for a box and an axis-parallel line or point: both
\* are closed sets
Intersects(b, g) ==
    /\ Min(g.x1, g.x2) <= b.x2 /\ Max(g.x1, g.x2) >= b.x1
    /\ Min(g.y1, g.y2) <= b.y2 /\ Max(g.y1, g.y2) >= b.y1

----------------------------------------------------------------------------
(* clean_blockface_comprehensive, lines 25-107: the frame df_clean, or the  *)
(* exception                                                               *)

T_UNKNOWN == <<"U","N","K","N","O","W","N">>
T_PAID == <<"P","A","I","D">>
T_PAID_PARKING == <<"P","A","I","D"," ","P","A","R","K","I","N","G">>
T_UNRESTRICTED == <<"U","N","R","E","S","T","R","I","C","T","E","D">>
T_RESTRICTED == <<"R","E","S","T","R","I","C","T","E","D">>
T_CARPOOL == <<"C","A","R","P","O","O","L">>
T_RPZ == <<"R","P","Z">>
T_PERMIT == <<"P","E","R","M","I","T">>
T_TIME_LIMIT == <<"T","I","M","E"," ","L","I","M","I","T">>
T_TIME_LIMITED == <<"T","I","M","E","_","L","I","M","I","T","E","D">>
T_NO_PARKING == <<"N","O"," ","P","A","R","K","I","N","G">>
T_NO_PARKING_CLEAN == <<"N","O","_","P","A","R","K","I","N","G">>
T_GARAGE == <<"G","A","R","A","G","E">>

\* category_mapping
CategoryMapping ==
    {<<T_PAID_PARKING, T_PAID>>, <<T_PAID, T_PAID>>,
     <<T_UNRESTRICTED, T_UNRESTRICTED>>, <<T_RESTRICTED, T_RESTRICTED>>,
     <<T_CARPOOL, T_CARPOOL>>, <<T_RPZ, T_PERMIT>>,
     <<T_TIME_LIMIT, T_TIME_LIMITED>>, <<T_NO_PARKING, T_NO_PARKING_CLEAN>>}

\* CategoryStd, if the value were not stripped
CategoryStdUnstripped(v) == IF IsAbsent(v) THEN T_UNKNOWN ELSE Upper(v.s)

\* df['PARKING_CATEGORY'].fillna('UNKNOWN').str.strip().str.upper()
CategoryStd(v) == IF IsAbsent(v) THEN T_UNKNOWN ELSE Upper(Strip(v.s))

\* df['category_std'].map(category_mapping).fillna(df['category_std'])
CategoryClean(v) ==
    LET std == CategoryStd(v)
    IN  IF \E p \in CategoryMapping : p[1] = std
        THEN (CHOOSE p \in CategoryMapping : p[1] = std)[2]
        ELSE std

\* the number -f or f
Signed(f, neg) == IF IsAbsent(f) THEN Absent ELSE Dec(IF neg THEN -f.m ELSE f.m, f.e)

\* the unsigned decimal a text spells, NaN if it spells none
UnsignedDecimal(body) ==
    IF body = <<>> \/ KeepDigitsAndDots(body) # body THEN Absent ELSE FloatOf(body)

\* pd.to_numeric(v, errors='coerce') of one value: a number as it is, a text
\* of an optionally signed decimal as that number, NaN otherwise
ToNumeric(v) ==
    IF IsAbsent(v) THEN Absent
    ELSE IF v.k = "num" THEN v
    ELSE IF v.s # <<>> /\ Head(v.s) = "-" THEN Signed(UnsignedDecimal(Tail(v.s)), TRUE)
    ELSE UnsignedDecimal(v.s)

\* .fillna(0).astype(int): NaN is 0, a float loses its fraction (towards zero)
FillnaAstypeInt(x) ==
    IF IsAbsent(x) THEN 0
    ELSE IF x.m < 0 THEN -((-x.m) \div Pow10(x.e))
    ELSE x.m \div Pow10(x.e)

\* pd.to_numeric(df[col], errors='coerce').fillna(0).astype(int), one value
SpaceCount(v) == FillnaAstypeInt(ToNumeric(v))

\* df['PARKING_CATEGORY'].notna() | (df['PARKING_SPACES'] > 0)
HasParking(r) ==
    \/ ~IsAbsent(r.PARKING_CATEGORY)
    \/ (~IsAbsent(r.PARKING_SPACES) /\ r.PARKING_SPACES.m > 0)

\* the columns lines 36-80 and 106 read
StreetColumns ==
    {"geometry", "OBJECTID", "PARKING_CATEGORY", "PARKING_SPACES",
     "PARKING_TIME_LIMIT", "TOTAL_SPACES", "PAID_SPACES", "UNRESTRICTED",
     "WKD_RATE1", "START_TIME_WKD", "END_TIME_WKD", "RPZ_ZONE", "PEAK_HOUR",
     "BLOCK_ID", "SIDE"}

\* output_cols
StreetOutputCols ==
    {"geometry", "OBJECTID", "parking_type", "category_clean",
     "time_limit_minutes", "total_spaces", "paid_spaces", "unrestricted_spaces",
     "weekday_rate", "weekday_start", "weekday_end", "price_category",
     "has_paid_parking", "is_permit_zone", "is_peak_hour_restricted",
     "block_id", "side"}

\* one row through lines 29-106, with its weekday_rate and paid_spaces
CleanStreetRowWith(r, rate, paid) ==
    [geometry |-> Simplify(MakeValid(r.geometry)),
     OBJECTID |-> r.OBJECTID,
     parking_type |-> "street",
     category_clean |-> CategoryClean(r.PARKING_CATEGORY),
     time_limit_minutes |-> ParseTimeLimit(r.PARKING_TIME_LIMIT),
     total_spaces |-> SpaceCount(r.TOTAL_SPACES),
     paid_spaces |-> paid,
     unrestricted_spaces |-> SpaceCount(r.UNRESTRICTED),
     weekday_rate |-> rate,
     weekday_start |-> StandardizeTime(r.START_TIME_WKD),
     weekday_end |-> StandardizeTime(r.END_TIME_WKD),
     price_category |-> CategorizePrice(rate),
     has_paid_parking |-> paid > 0,
     is_permit_zone |-> ~IsAbsent(r.RPZ_ZONE),
     is_peak_hour_restricted |-> ~IsAbsent(r.PEAK_HOUR),
     block_id |-> IF IsAbsent(r.BLOCK_ID) THEN <<>> ELSE r.BLOCK_ID.s,
     side |-> IF IsAbsent(r.SIDE) THEN <<>> ELSE Upper(r.SIDE.s)]

CleanStreetRow(r) ==
    CleanStreetRowWith(r, CleanCurrency(r.WKD_RATE1), SpaceCount(r.PAID_SPACES))

\* drop_duplicates(subset=['geometry']): the first row of each geometry
DropDuplicateGeometry(rows) ==
    SelectRows(rows, {i \in 1..Len(rows) :
                        \A j \in 1..(i - 1) : rows[j].geometry # rows[i].geometry})

Raised == [k |-> "raised"]

\* df[df.geometry.notna()]
WithGeometry(rows) ==
    SelectRows(rows, {i \in 1..Len(rows) : rows[i].geometry.k # "null"})

\* lines 35-107 for the rows that have a geometry
CleanStreetRows(rows) ==
    DropDuplicateGeometry([i \in 1..Len(rows) |-> CleanStreetRow(rows[i])])

\* lines 34-107: line 39 divides by the number of rows with a geometry
CleanStreetFrame(withGeom) ==
    IF withGeom = <<>> THEN Raised
    ELSE Table(StreetOutputCols,
               CleanStreetRows(SelectRows(withGeom,
                   {i \in 1..Len(withGeom) : HasParking(withGeom[i])})))

\* lines 25-107.  read_file raises on a missing or malformed file; a column
\* the code indexes and the file lacks is a KeyError.
CleanBlockfaceFrame(file) ==
    IF file.k # "table" \/ ~(StreetColumns \subseteq file.cols) THEN Raised
    ELSE CleanStreetFrame(WithGeometry(file.rows))

----------------------------------------------------------------------------
(* _create_parking_overview *)

\* grid_size=0.005 degrees, in lattice units
GridSize == 4

\* sum of f over a set of row indices
RECURSIVE SumOver(_, _, _)
SumOver(rows, idx, field) ==
    IF idx = {} THEN 0
    ELSE LET i == CHOOSE j \in idx : TRUE
         IN  rows[i][field] + SumOver(rows, idx \ {i}, field)

SetMin(S) == CHOOSE a \in S : \A b \in S : a <= b
SetMax(S) == CHOOSE a \in S : \A b \in S : a >= b

\* np.arange(lo, hi, step): lo, lo + step, ... below hi
Arange(lo, hi, step) ==
    [i \in 1..(IF hi > lo THEN ((hi - lo) + step - 1) \div step ELSE 0) |->
        lo + (i - 1) * step]

\* lines 297-300: one box per x, per y, in that order
GridOver(x_coords, y_coords, size) ==
    [c \in 1..(Len(x_coords) * Len(y_coords)) |->
        Box(x_coords[((c - 1) \div Len(y_coords)) + 1],
            y_coords[((c - 1) % Len(y_coords)) + 1], size)]

\* the x, and the y, of the frame's geometries
XsOf(df) == {df.rows[i].geometry.x1 : i \in 1..Len(df.rows)}
               \cup {df.rows[i].geometry.x2 : i \in 1..Len(df.rows)}
YsOf(df) == {df.rows[i].geometry.y1 : i \in 1..Len(df.rows)}
               \cup {df.rows[i].geometry.y2 : i \in 1..Len(df.rows)}

\* lines 292-300: the grid over df.total_bounds
GridCells(df, size) ==
    GridOver(Arange(SetMin(XsOf(df)), SetMax(XsOf(df)), size),
             Arange(SetMin(YsOf(df)), SetMax(YsOf(df)), size), size)

\* the rows of df that intersect the cell: sjoin(grid, df, predicate='intersects')
Joined(df, cell) == {i \in 1..Len(df.rows) : Intersects(cell, df.rows[i].geometry)}

\* lines 303-313 for one grid cell: the sums over the rows that intersect it
AggregateCell(df, cell, index) ==
    [geometry |-> cell,
     index |-> index,
     total_spaces |-> SumOver(df.rows, Joined(df, cell), "total_spaces"),
     paid_spaces |-> SumOver(df.rows, Joined(df, cell), "paid_spaces"),
     has_paid_parking |-> \E i \in Joined(df, cell) : df.rows[i].has_paid_parking]

\* line 314
KeepCell(c) == c.total_spaces > 0

OverviewCols == {"geometry", "index", "total_spaces", "paid_spaces", "has_paid_parking"}

\* lines 303-314 over the grid
OverviewOf(df, grid) ==
    SelectRows([c \in 1..Len(grid) |-> AggregateCell(df, grid[c], c - 1)],
               {c \in 1..Len(grid) : KeepCell(AggregateCell(df, grid[c], c - 1))})

\* _create_parking_overview(df): the overview frame, or Raised (returned as
\* None) for a frame without rows, whose total_bounds are NaN
CreateParkingOverview(df) ==
    IF df.rows = <<>> THEN Raised
    ELSE Table(OverviewCols, OverviewOf(df, GridCells(df, GridSize)))

----------------------------------------------------------------------------
(* clean_parking_tiers, lines 137-161, for the schema {RATE, START}: the     *)
(* frame written, or the exception                                         *)

TierColumns == {"geometry", "RATE", "START"}

\* lines 140-160 for one row; numeric: the column 'rate' has a float dtype
CleanTierRow(r, numeric) ==
    [c \in {"geometry", "RATE", "START", "rate", "start_std"}
            \cup (IF numeric THEN {"avg_rate", "price_category"} ELSE {}) |->
        CASE c = "geometry" -> Simplify(MakeValid(r.geometry))
          [] c = "RATE" -> r.RATE
          [] c = "START" -> r.START
          [] c = "rate" -> CleanCurrency(r.RATE)
          [] c = "start_std" -> StandardizeTime(r.START)
          [] c = "avg_rate" -> CleanCurrency(r.RATE)
          [] c = "price_category" -> CategorizePrice(CleanCurrency(r.RATE))]

\* lines 145-161; numeric_rates holds 'rate' if some cleaned rate is a float
CleanTierRows(cols, rows, numeric) ==
    Table(cols \cup {"rate", "start_std"}
              \cup (IF numeric THEN {"avg_rate", "price_category"} ELSE {}),
          [i \in 1..Len(rows) |-> CleanTierRow(rows[i], numeric)])

CleanTiersFrame(file) ==
    IF file.k # "table" \/ ~(TierColumns \subseteq file.cols) THEN Raised
    ELSE CleanTierRows(file.cols, WithGeometry(file.rows),
             \E i \in 1..Len(file.rows) :
                 /\ file.rows[i].geometry.k # "null"
                 /\ ~IsAbsent(CleanCurrency(file.rows[i].RATE)))

----------------------------------------------------------------------------
(* clean_garages, lines 183-230: the frame df_clean, or the exception       *)

\* the first of the candidate columns the frame has, "" if it has none
RECURSIVE FirstPresent(_, _)
FirstPresent(candidates, cols) ==
    IF candidates = <<>> THEN ""
    ELSE IF Head(candidates) \in cols THEN Head(candidates)
    ELSE FirstPresent(Tail(candidates), cols)

NameCandidates == <<"NAME", "GARAGE_NAME", "LOCATION_NAME", "FACILITY_NAME">>
CapacityCandidates == <<"CAPACITY", "SPACES", "TOTAL_SPACES", "NUM_SPACES">>
HoursCandidates == <<"HOURS", "OPERATING_HOURS", "OPEN_HOURS">>
AddressCandidates == <<"ADDRESS", "LOCATION", "STREET_ADDRESS">>

\* .str.strip() of one value
StrStrip(v) == IF IsAbsent(v) THEN Absent ELSE Txt(Strip(v.s))

T_24_7 == <<"2","4","/","7">>

\* df[hours_col].fillna('24/7').astype(str).str.strip()
HoursOf(v) == IF IsAbsent(v) THEN T_24_7 ELSE Strip(StrOf(v))

\* output_cols, lines 225-228
GarageOutputCols(cols) ==
    {"geometry", "parking_type"}
    \cup (IF FirstPresent(NameCandidates, cols) # "" THEN {"name"} ELSE {})
    \cup (IF FirstPresent(CapacityCandidates, cols) # "" THEN {"capacity"} ELSE {})
    \cup (IF FirstPresent(HoursCandidates, cols) # "" THEN {"hours", "is_24_7"} ELSE {})
    \cup (IF FirstPresent(AddressCandidates, cols) # "" THEN {"address"} ELSE {})
    \cup (IF "OBJECTID" \in cols THEN {"OBJECTID"} ELSE {})

\* one row through lines 189-230
CleanGarageRow(r, cols) ==
    [c \in GarageOutputCols(cols) |->
        CASE c = "geometry" -> r.geometry
          [] c = "parking_type" -> "garage"
          [] c = "name" -> StrStrip(r[FirstPresent(NameCandidates, cols)])
          [] c = "capacity" -> CleanCapacity(r[FirstPresent(CapacityCandidates, cols)])
          [] c = "hours" -> HoursOf(r[FirstPresent(HoursCandidates, cols)])
          [] c = "is_24_7" ->
                 Contains(HoursOf(r[FirstPresent(HoursCandidates, cols)]), <<"2","4">>)
          [] c = "address" -> StrStrip(r[FirstPresent(AddressCandidates, cols)])
          [] c = "OBJECTID" -> r.OBJECTID]

\* lines 186-187: rows with a geometry, of type Point
PointRows(rows) ==
    SelectRows(rows, {i \in 1..Len(rows) : rows[i].geometry.k = "Point"})

\* lines 189-230 for the point rows
CleanGarageRows(rows, cols) ==
    Table(GarageOutputCols(cols), [i \in 1..Len(rows) |-> CleanGarageRow(rows[i], cols)])

CleanGaragesFrame(file) ==
    IF file.k # "table" THEN Raised
    ELSE CleanGarageRows(PointRows(file.rows), file.cols)

----------------------------------------------------------------------------
(* create_combined_dataset, lines 254-276 *)

CombinedCols == {"geometry", "parking_type", "category", "total_spaces", "price_category"}

\* lines 255-260
StreetSimple(street) ==
    [i \in 1..Len(street.rows) |->
        [geometry |-> Centroid(street.rows[i].geometry),
         parking_type |-> street.rows[i].parking_type,
         category |-> Txt(street.rows[i].category_clean),
         total_spaces |-> IntV(street.rows[i].total_spaces),
         price_category |-> street.rows[i].price_category]]

\* lines 265-268: the capacity column as it is, or 0 if the frame has none
GarageTotalSpaces(garages, i) ==
    IF "capacity" \in garages.cols THEN garages.rows[i].capacity ELSE IntV(0)

\* lines 263-269
GarageSimple(garages) ==
    [i \in 1..Len(garages.rows) |->
        [geometry |-> garages.rows[i].geometry,
         parking_type |-> garages.rows[i].parking_type,
         category |-> Txt(T_GARAGE),
         total_spaces |-> GarageTotalSpaces(garages, i),
         price_category |-> "UNKNOWN"]]

\* Downsample, if a last group of fewer than three rows gave no row
DownsampleWholeGroups(rows) ==
    [k \in 1..(Len(rows) \div 3) |-> rows[3 * (k - 1) + 1]]

\* combined.iloc[::3]: the rows at 0, 3, 6, ... (here 1, 4, 7, ...)
Downsample(rows) ==
    [k \in 1..((Len(rows) + 2) \div 3) |-> rows[3 * (k - 1) + 1]]

\* lines 270-272
Concatenated(street, garages) ==
    IF garages.k = "table" THEN StreetSimple(street) \o GarageSimple(garages)
    ELSE StreetSimple(street)

\* lines 254-276: combined_sample, or the exception (a KeyError for a frame
\* that lacks a column lines 258 and 263 select).  street is the street file,
\* which exists; garages is the garage file or NoFile.
CombinedSample(street, garages) ==
    IF \/ ~({"geometry", "parking_type", "category_clean", "total_spaces",
             "price_category"} \subseteq street.cols)
       \/ (garages.k = "table" /\ ~({"geometry", "parking_type"} \subseteq garages.cols))
    THEN Raised
    ELSE Table(CombinedCols, Downsample(Concatenated(street, garages)))

----------------------------------------------------------------------------
(* The stages of run_all.  Each takes clean_dir and what it reads, and      *)
(* gives clean_dir as it leaves it and what it returns: "ok" (a frame),     *)
(* "failed" (None from the except clause) or "skipped" (None from the       *)
(* early return).                                                          *)

\* Put, if to_file appended to the file it finds
PutAppending(dir, name, df) ==
    [dir EXCEPT ![name] =
        IF dir[name].k = "table" /\ dir[name].rows # <<>> /\ df.rows # <<>>
        THEN Table(df.cols, dir[name].rows \o df.rows)
        ELSE WriteGeoJSON(df)]

\* df.to_file(os.path.join(self.clean_dir, name), driver='GeoJSON'): the file
\* is rewritten
Put(dir, name, df) == [dir EXCEPT ![name] = WriteGeoJSON(df)]

\* lines 113-120: the overview written, unless there is none
StreetOverviewWritten(written, overview, ewr) ==
    IF overview = Raised THEN [dir |-> written, ret |-> "ok"]
    ELSE IF WriteRaises(overview, ewr) THEN [dir |-> written, ret |-> "failed"]
    ELSE [dir |-> Put(written, "street_parking_overview", overview), ret |-> "ok"]

\* lines 108-126
StreetWritten(dir, df_clean, ewr) ==
    IF df_clean = Raised \/ WriteRaises(df_clean, ewr)
    THEN [dir |-> dir, ret |-> "failed"]
    ELSE StreetOverviewWritten(Put(dir, "street_parking_detailed", df_clean),
                               CreateParkingOverview(df_clean), ewr)

\* clean_blockface_comprehensive
StreetStage(dir, raw, ewr) ==
    StreetWritten(dir, CleanBlockfaceFrame(raw["parking_categories"]), ewr)

\* the frame written to the file `name`, or the except clause
Written(dir, name, df, ewr) ==
    IF df = Raised \/ WriteRaises(df, ewr) THEN [dir |-> dir, ret |-> "failed"]
    ELSE [dir |-> Put(dir, name, df), ret |-> "ok"]

\* clean_parking_tiers
TiersStage(dir, raw, ewr) ==
    IF raw["parking_tiers"] = NoFile THEN [dir |-> dir, ret |-> "skipped"]
    ELSE Written(dir, "parking_tiers_clean", CleanTiersFrame(raw["parking_tiers"]), ewr)

\* clean_garages
GaragesStage(dir, raw, ewr) ==
    IF raw["garages"] = NoFile THEN [dir |-> dir, ret |-> "skipped"]
    ELSE Written(dir, "garages_clean", CleanGaragesFrame(raw["garages"]), ewr)

\* create_combined_dataset
CombineStage(dir, ewr) ==
    IF dir["street_parking_detailed"] = NoFile THEN [dir |-> dir, ret |-> "skipped"]
    ELSE Written(dir, "parking_all_points",
                 CombinedSample(dir["street_parking_detailed"], dir["garages_clean"]),
                 ewr)

\* verify_all_datasets, lines 422-442, for one file: line 433 takes the first
\* geometry type, an IndexError in a file without features
VerifyFile(file) ==
    IF file = NoFile THEN "not found"
    ELSE IF file.rows = <<>> THEN "error"
    ELSE "verified"

StageOrder == <<"street", "tiers", "garages", "combine", "verify">>

\* AfterStage, if a stage's exception reached run_all
AfterStagePropagating(stage, returned) ==
    IF returned = "failed" THEN "aborted"
    ELSE CASE stage = "street" -> "tiers"
           [] stage = "tiers" -> "garages"
           [] stage = "garages" -> "combine"
           [] stage = "combine" -> "verify"
           [] stage = "verify" -> "done"

\* run_all, lines 452-457: the call after stage, whatever stage returned
AfterStage(stage, returned) ==
    CASE stage = "street" -> "tiers"
      [] stage = "tiers" -> "garages"
      [] stage = "garages" -> "combine"
      [] stage = "combine" -> "verify"
      [] stage = "verify" -> "done"

----------------------------------------------------------------------------
(* Inputs of the pipeline *)

MaxStreetRows == 3
MaxGarageRows == 2
MaxRuns == 2

T_paid_parking == <<"p","a","i","d"," ","p","a","r","k","i","n","g">>

\* the i-th feature of a parking_categories.geojson; odd features run
\* east-west, even ones north-south.  parking: the feature carries a category
\* and a positive PARKING_SPACES.
StreetFeature(i, parking) ==
    [geometry |-> IF i % 2 = 1 THEN Line(4 * i, 0, 4 * i + 2, 0)
                  ELSE Line(4 * i, 0, 4 * i, 2),
     OBJECTID |-> Dec(i, 0),
     PARKING_CATEGORY |-> IF parking THEN Txt(T_paid_parking) ELSE Absent,
     PARKING_SPACES |-> IF parking THEN Dec(i, 0) ELSE Dec(0, 0),
     PARKING_TIME_LIMIT |-> Txt(<<"2"," ","h","o","u","r","s">>),
     TOTAL_SPACES |-> Dec(i, 0),
     PAID_SPACES |-> Dec(1, 0),
     UNRESTRICTED |-> Absent,
     WKD_RATE1 |-> Txt(<<"$","2",".","5","0">>),
     START_TIME_WKD |-> Txt(<<"8","A","M">>),
     END_TIME_WKD |-> Txt(<<"6",":","0","0"," ","P","M">>),
     RPZ_ZONE |-> Absent,
     PEAK_HOUR |-> Absent,
     BLOCK_ID |-> Txt(<<"B">>),
     SIDE |-> Txt(<<"n","e">>)]

StreetTables ==
    {Table(StreetColumns, [i \in 1..n |-> StreetFeature(i, parking)]) :
        n \in 0..MaxStreetRows, parking \in BOOLEAN}

GarageColumns == {"geometry", "OBJECTID", "NAME", "CAPACITY", "HOURS", "ADDRESS"}

\* the i-th feature of a garages.geojson with the columns cols; odd features
\* state a capacity
GarageFeature(i, cols) ==
    LET full == [geometry |-> Point(2 * i, 2 * i),
                 OBJECTID |-> Dec(100 + i, 0),
                 NAME |-> Txt(<<" ","L","o","t"," ">>),
                 CAPACITY |-> IF i % 2 = 1 THEN Txt(<<"5","0"," ","c","a","r","s">>)
                              ELSE Absent,
                 HOURS |-> Absent,
                 ADDRESS |-> Txt(<<"1"," ","A","v","e">>)]
    IN  [c \in cols |-> full[c]]

GarageTables ==
    {Table(cols, [i \in 1..n |-> GarageFeature(i, cols)]) :
        n \in 0..MaxGarageRows, cols \in {GarageColumns, GarageColumns \ {"CAPACITY"}}}

TierTables ==
    {Table(TierColumns,
           <<[geometry |-> Line(0, 0, 8, 0),
              RATE |-> Txt(<<"$","1",".","5","0">>),
              START |-> Txt(<<"9",":","0","0"," ","A","M">>)]>>)}

\* what an earlier run, on other sources, wrote
OldStreet ==
    CleanBlockfaceFrame(Table(StreetColumns,
        <<StreetFeature(MaxStreetRows + 1, TRUE), StreetFeature(MaxStreetRows + 2, TRUE)>>))
OldGarages ==
    CleanGaragesFrame(Table(GarageColumns, <<GarageFeature(MaxGarageRows + 1, GarageColumns)>>))
OldFiles ==
    [o \in Outputs |->
        CASE o = "street_parking_detailed" -> WriteGeoJSON(OldStreet)
          [] o = "street_parking_overview" -> WriteGeoJSON(CreateParkingOverview(OldStreet))
          [] o = "parking_tiers_clean" ->
                 WriteGeoJSON(CleanTiersFrame(CHOOSE f \in TierTables : TRUE))
          [] o = "garages_clean" -> WriteGeoJSON(OldGarages)
          [] o = "parking_all_points" -> WriteGeoJSON(CombinedSample(OldStreet, OldGarages))]

Stages == {"street", "tiers", "garages", "combine"}
NoReturns == [s \in Stages |-> "none"]
NoReport == [o \in Outputs |-> "none"]
NoCall == [fn |-> "none"]

\* after SeattleParkingCleaner(raw_dir, clean_dir): the sources as they are,
\* clean_dir holding any of the files an earlier run left
Init ==
    /\ \E s \in {NoFile, Unreadable} \cup StreetTables,
          t \in {NoFile, Unreadable} \cup TierTables,
          g \in {NoFile, Unreadable} \cup GarageTables :
          rawDir = [parking_categories |-> s, parking_tiers |-> t, garages |-> g]
    /\ \E kept \in SUBSET Outputs :
          cleanDir = [o \in Outputs |-> IF o \in kept THEN OldFiles[o] ELSE NoFile]
    /\ emptyWriteRaises \in BOOLEAN
    /\ pc = "street"
    /\ runNo = 1
    /\ stagesRun = <<>>
    /\ ret = NoReturns
    /\ report = NoReport
    /\ prevDir = cleanDir
    /\ inp = NoCall
    /\ out = NoCall

RunStage(stage, result) ==
    /\ pc = stage
    /\ cleanDir' = result.dir
    /\ ret' = [ret EXCEPT ![stage] = result.ret]
    /\ stagesRun' = Append(stagesRun, stage)
    /\ pc' = AfterStage(stage, result.ret)
    /\ UNCHANGED <<rawDir, emptyWriteRaises, runNo, report, prevDir, inp, out>>

CleanBlockfaceComprehensive ==
    RunStage("street", StreetStage(cleanDir, rawDir, emptyWriteRaises))

CleanParkingTiers ==
    RunStage("tiers", TiersStage(cleanDir, rawDir, emptyWriteRaises))

CleanGarages ==
    RunStage("garages", GaragesStage(cleanDir, rawDir, emptyWriteRaises))

CreateCombinedDataset ==
    RunStage("combine", CombineStage(cleanDir, emptyWriteRaises))

VerifyAllDatasets ==
    /\ pc = "verify"
    /\ report' = [o \in Outputs |-> VerifyFile(cleanDir[o])]
    /\ stagesRun' = Append(stagesRun, "verify")
    /\ pc' = AfterStage("verify", "ok")
    /\ UNCHANGED <<rawDir, cleanDir, emptyWriteRaises, runNo, ret, prevDir, inp, out>>

\* main() again, on the same directories
RunAgain ==
    /\ pc = "done"
    /\ runNo < MaxRuns
    /\ pc' = "street"
    /\ runNo' = runNo + 1
    /\ stagesRun' = <<>>
    /\ ret' = NoReturns
    /\ report' = NoReport
    /\ prevDir' = cleanDir
    /\ UNCHANGED <<rawDir, cleanDir, emptyWriteRaises, inp, out>>

Next ==
    \/ CleanBlockfaceComprehensive
    \/ CleanParkingTiers
    \/ CleanGarages
    \/ CreateCombinedDataset
    \/ VerifyAllDatasets
    \/ RunAgain

Spec == Init /\ [][Next]_vars

----------------------------------------------------------------------------
(* Claims about run_all *)

IsPrefix(s, u) == Len(s) <= Len(u) /\ s = SubSeq(u, 1, Len(s))

\* C1: whatever each stage does (succeeds, fails with an exception, or is
\* skipped for a missing source), run_all calls the stages in the order street
\* cleaner, tier cleaner, garage cleaner, combiner, verifier, and reaches its
\* end: the stages called so far are the first of that order, the call that
\* is next is the one that follows them (a stage's only guard is that it is
\* next, so the run is never stuck and at most five calls from its end), and
\* at the end every stage has been called and has returned.
C1_RunAllCompletes ==
    /\ IsPrefix(stagesRun, StageOrder)
    /\ pc = (IF Len(stagesRun) < Len(StageOrder)
             THEN StageOrder[Len(stagesRun) + 1] ELSE "done")
    /\ \A i \in 1..Len(stagesRun) :
          stagesRun[i] \in Stages => ret[stagesRun[i]] \in {"ok", "failed", "skipped"}

\* a run at its end in which the first two cleaners and the combiner failed
\* and the verifier could not read a file
C1_Witness ==
    /\ pc = "done"
    /\ stagesRun = StageOrder
    /\ ret["street"] = "failed"
    /\ ret["tiers"] = "failed"
    /\ ret["combine"] = "failed"
    /\ \E o \in Outputs : report[o] = "error"

\* C2: at the end of a run, the output files of every dataset cleaner that
\* failed are absent from clean_dir.
C2_FailedCleanerLeavesNoOutput ==
    pc = "done" =>
        /\ ret["street"] = "failed" =>
              /\ cleanDir["street_parking_detailed"] = NoFile
              /\ cleanDir["street_parking_overview"] = NoFile
        /\ ret["tiers"] = "failed" => cleanDir["parking_tiers_clean"] = NoFile
        /\ ret["garages"] = "failed" => cleanDir["garages_clean"] = NoFile

\* C3: at the end of a run without a garages.geojson in which the street
\* cleaner succeeded, garages_clean.geojson is absent, and every row of the
\* parking_all_points.geojson the combiner wrote is a street row.
C3_NoGarageSourceNoGarageRows ==
    (pc = "done" /\ rawDir["garages"] = NoFile /\ ret["street"] = "ok") =>
        /\ cleanDir["garages_clean"] = NoFile
        /\ ret["combine"] = "ok" =>
              \A i \in 1..Len(cleanDir["parking_all_points"].rows) :
                  /\ cleanDir["parking_all_points"].rows[i].parking_type = "street"
                  /\ cleanDir["parking_all_points"].rows[i].category # Txt(T_GARAGE)

\* C4: whenever the combiner wrote, its file holds ceil(N/3) rows for the N
\* rows it concatenated (street rows, then garage rows), and its k-th row
\* (from 0) is the concatenated row at index 3k.
C4_EveryThirdRow ==
    ret["combine"] = "ok" =>
        /\ 3 * Len(cleanDir["parking_all_points"].rows)
               >= Len(Concatenated(cleanDir["street_parking_detailed"],
                                   cleanDir["garages_clean"]))
        /\ 3 * Len(cleanDir["parking_all_points"].rows)
               < Len(Concatenated(cleanDir["street_parking_detailed"],
                                  cleanDir["garages_clean"])) + 3
        /\ \A k \in 0..(Len(cleanDir["parking_all_points"].rows) - 1) :
              cleanDir["parking_all_points"].rows[k + 1]
                 = Concatenated(cleanDir["street_parking_detailed"],
                                cleanDir["garages_clean"])[3 * k + 1]

\* the combiner wrote a second row, a garage's, from a concatenation whose
\* length is no multiple of three
C4_Witness ==
    /\ ret["combine"] = "ok"
    /\ Len(Concatenated(cleanDir["street_parking_detailed"],
                        cleanDir["garages_clean"])) % 3 # 0
    /\ Len(cleanDir["parking_all_points"].rows) >= 2
    /\ cleanDir["parking_all_points"].rows[2].parking_type = "garage"

\* the capacity the combiner's row r was given by a garage of the file
C8_FromGarage(r, garages) ==
    \E i \in 1..Len(garages.rows) :
        /\ garages.rows[i].geometry = r.geometry
        /\ r.total_spaces =
              (IF "capacity" \in garages.cols /\ ~IsAbsent(garages.rows[i].capacity)
               THEN garages.rows[i].capacity ELSE IntV(0))

\* C8: every garage row the combiner wrote has category GARAGE, price_category
\* UNKNOWN, and as total_spaces the garage's capacity, or 0 if the garage has
\* none (no capacity column, or no value in it).
C8_GarageRowsDefaultToZero ==
    ret["combine"] = "ok" =>
        \A k \in 1..Len(cleanDir["parking_all_points"].rows) :
            cleanDir["parking_all_points"].rows[k].parking_type = "garage" =>
                /\ cleanDir["parking_all_points"].rows[k].category = Txt(T_GARAGE)
                /\ cleanDir["parking_all_points"].rows[k].price_category = "UNKNOWN"
                /\ C8_FromGarage(cleanDir["parking_all_points"].rows[k],
                                 cleanDir["garages_clean"])

\* C10: a second run_all on unchanged sources leaves clean_dir as the first
\* left it: the same files, with the same rows and attribute values.
C10_SecondRunChangesNothing ==
    (pc = "done" /\ runNo >= 2) => cleanDir = prevDir

\* the end of a second run in which every cleaner and the combiner wrote
C10_Witness ==
    /\ pc = "done"
    /\ runNo = 2
    /\ ret["street"] = "ok"
    /\ ret["tiers"] = "ok"
    /\ ret["garages"] = "ok"
    /\ ret["combine"] = "ok"
    /\ Len(cleanDir["parking_all_points"].rows) > 1

----------------------------------------------------------------------------
(* The street cleaner on one parking_categories.geojson, in an empty        *)
(* clean_dir, for the claims about what it derives from a row              *)

\* SeattleParkingCleaner(raw_dir, clean_dir) where raw_dir holds only this
\* parking_categories.geojson and clean_dir is empty
OneStreetFile(table) ==
    /\ rawDir = [parking_categories |-> table, parking_tiers |-> NoFile, garages |-> NoFile]
    /\ cleanDir = [o \in Outputs |-> NoFile]
    /\ emptyWriteRaises \in BOOLEAN
    /\ pc = "street"
    /\ runNo = 1
    /\ stagesRun = <<>>
    /\ ret = NoReturns
    /\ report = NoReport
    /\ prevDir = [o \in Outputs |-> NoFile]
    /\ out = NoCall

\* street_parking_detailed.geojson as the cleaner left it
Detailed == cleanDir["street_parking_detailed"]

\* the cleaner has run and has written its rows
DetailedWritten == pc = "tiers" /\ Detailed.k = "table" /\ Detailed.rows # <<>>

----------------------------------------------------------------------------
(* Space counts *)

MaxCount == 3

T_abc == <<"a","b","c">>

\* raw values of TOTAL_SPACES, PAID_SPACES, UNRESTRICTED: missing, text that
\* is no number, text that is one, whole and fractional numbers of either sign
SpaceValues ==
    {Absent, Txt(T_abc), Txt(<<"2">>), Txt(<<"-","2">>), Dec(25, 1), Dec(-25, 1)}
    \cup {Dec(n, 0) : n \in (-MaxCount)..MaxCount}

SpacesInit ==
    \E a \in SpaceValues, b \in SpaceValues, c \in SpaceValues :
        /\ inp = [fn |-> "clean_blockface_comprehensive",
                  TOTAL_SPACES |-> a, PAID_SPACES |-> b, UNRESTRICTED |-> c]
        /\ OneStreetFile(Table(StreetColumns,
              <<[StreetFeature(1, TRUE) EXCEPT !.TOTAL_SPACES = a,
                                               !.PAID_SPACES = b,
                                               !.UNRESTRICTED = c]>>))

SpacesSpec == SpacesInit /\ [][CleanBlockfaceComprehensive]_vars

\* a derived count for the raw value v: a natural number, 0 if v is missing
\* or is text that is no number
C6_CountOf(v, count) ==
    /\ count \in Nat
    /\ (IsAbsent(v) \/ v = Txt(T_abc)) => count = 0

\* C6: total_spaces, paid_spaces and unrestricted_spaces of a cleaned street
\* segment are non-negative integers, 0 for a missing or non-numeric raw value.
C6_SpaceCountsNonNegative ==
    DetailedWritten =>
        /\ C6_CountOf(inp.TOTAL_SPACES, Detailed.rows[1].total_spaces)
        /\ C6_CountOf(inp.PAID_SPACES, Detailed.rows[1].paid_spaces)
        /\ C6_CountOf(inp.UNRESTRICTED, Detailed.rows[1].unrestricted_spaces)

----------------------------------------------------------------------------
(* Categories *)

MaxPad == 2

T_XYZ == <<"X","Y","Z">>
T_PAID_LOT == <<"P","A","I","D"," ","L","O","T">>

\* trimmed upper-case texts: the keys of category_mapping and two others
CategoryKeys == {p[1] : p \in CategoryMapping} \cup {T_XYZ, T_PAID_LOT}

\* s in another letter case
Cased(s, case) ==
    CASE case = "upper" -> s
      [] case = "lower" -> Lower(s)
      [] case = "title" -> <<Head(s)>> \o Lower(Tail(s))

\* s between l and r whitespace characters
Padded(s, l, r, white) == [i \in 1..l |-> white] \o s \o [i \in 1..r |-> white]

\* two retained rows whose categories differ in case and in padding only
CategoryPair(first, second) ==
    Table(StreetColumns,
          <<[StreetFeature(1, TRUE) EXCEPT !.PARKING_CATEGORY = Txt(first)],
            [StreetFeature(2, TRUE) EXCEPT !.PARKING_CATEGORY = Txt(second)]>>)

\* a row without a category, retained for its PARKING_SPACES
Uncategorized ==
    Table(StreetColumns, <<[StreetFeature(1, TRUE) EXCEPT !.PARKING_CATEGORY = Absent]>>)

CategoryInit ==
    \/ \E key \in CategoryKeys, case \in {"upper", "lower", "title"},
          l \in 0..MaxPad, r \in 0..MaxPad, white \in {" ", "\t"} :
          /\ inp = [fn |-> "clean_blockface_comprehensive", key |-> key,
                    raw |-> Txt(Padded(Cased(key, case), l, r, white))]
          /\ OneStreetFile(CategoryPair(Padded(Cased(key, case), l, r, white),
                                        Padded(Lower(key), r, l, " ")))
    \/ /\ inp = [fn |-> "clean_blockface_comprehensive", key |-> T_UNKNOWN, raw |-> Absent]
       /\ OneStreetFile(Uncategorized)

CategorySpec == CategoryInit /\ [][CleanBlockfaceComprehensive]_vars

\* the lookup table of the claim: the image of a trimmed upper-case text
C9_Image(s) ==
    CASE s = T_PAID_PARKING -> T_PAID
      [] s = T_PAID -> T_PAID
      [] s = T_UNRESTRICTED -> T_UNRESTRICTED
      [] s = T_RESTRICTED -> T_RESTRICTED
      [] s = T_CARPOOL -> T_CARPOOL
      [] s = T_RPZ -> T_PERMIT
      [] s = T_TIME_LIMIT -> T_TIME_LIMITED
      [] s = T_NO_PARKING -> T_NO_PARKING_CLEAN
      [] OTHER -> s

\* C9: category_clean of a retained row is UNKNOWN for a missing
\* PARKING_CATEGORY, and otherwise the table image of the trimmed, upper-cased
\* value, or that value itself if the table has no such key; so rows whose
\* values differ in case or surrounding whitespace only get the same.
C9_CategoryCleanIsTableImage ==
    pc = "tiers" =>
        /\ Detailed.k = "table"
        /\ Len(Detailed.rows) = Len(rawDir["parking_categories"].rows)
        /\ \A i \in 1..Len(Detailed.rows) :
              Detailed.rows[i].category_clean = C9_Image(inp.key)

\* a padded lower-case "rpz" and a missing category have been cleaned
C9_Witness ==
    /\ pc = "tiers"
    /\ \/ /\ inp.key = T_RPZ
          /\ inp.raw = Txt(<<"\t","r","p","z","\t","\t">>)
          /\ Detailed.rows[1].category_clean = T_PERMIT
          /\ Detailed.rows[2].category_clean = T_PERMIT
       \/ /\ inp.raw = Absent
          /\ Detailed.rows[1].category_clean = T_UNKNOWN

----------------------------------------------------------------------------
(* Times *)

MaxHour == 13

\* raw values of START_TIME_WKD: an hour as written or zero-padded, perhaps
\* minutes, perhaps a suffix; a missing value, a number, and odd texts
Minutes == {<<>>, <<":","0","0">>, <<":","3","0">>, <<":","5">>, <<":","6","0">>}
Suffixes == {<<>>, <<"A","M">>, <<" ","P","M">>, <<"p","m">>, <<" ","x">>}
TimeValues ==
    {Txt(hh \o mm \o suffix) :
        hh \in {NatToText(h) : h \in 0..MaxHour} \cup {TwoDigits(h) : h \in 0..MaxHour},
        mm \in Minutes, suffix \in Suffixes}
    \cup {Absent, Dec(900, 0), Txt(<<"a","b","c",":","d","e","f">>), Txt(<<"P","M">>)}

TimeInit ==
    \E v \in TimeValues :
        /\ inp = [fn |-> "_standardize_time", time_str |-> v]
        /\ OneStreetFile(Table(StreetColumns,
              <<[StreetFeature(1, TRUE) EXCEPT !.START_TIME_WKD = v,
                                               !.END_TIME_WKD = v]>>))

\* self._standardize_time(time_str)
StandardizeTimeCall ==
    /\ out = NoCall
    /\ out' = [fn |-> "_standardize_time", result |-> StandardizeTime(inp.time_str)]
    /\ UNCHANGED <<rawDir, cleanDir, emptyWriteRaises, pc, runNo, stagesRun, ret,
                   report, prevDir, inp>>

TimeNext ==
    \/ StandardizeTimeCall
    \/ CleanBlockfaceComprehensive

TimeSpec == TimeInit /\ [][TimeNext]_vars

\* two digits, a colon, two digits: an hour below 24 and a minute below 60
C7_IsHHMM(s) ==
    /\ Len(s) = 5
    /\ IsDigit(s[1]) /\ IsDigit(s[2]) /\ s[3] = ":" /\ IsDigit(s[4]) /\ IsDigit(s[5])
    /\ 10 * DigitVal(s[1]) + DigitVal(s[2]) < 24
    /\ 10 * DigitVal(s[4]) + DigitVal(s[5]) < 60

C7_HHMMOrAbsent(v) == IsAbsent(v) \/ (v.k = "text" /\ C7_IsHHMM(v.s))

\* C7: _standardize_time returns a missing value or a text HH:MM, and so are
\* weekday_start and weekday_end of a cleaned street segment.
C7_TimesAreHHMMOrAbsent ==
    /\ out # NoCall => C7_HHMMOrAbsent(out.result)
    /\ DetailedWritten =>
          /\ C7_HHMMOrAbsent(Detailed.rows[1].weekday_start)
          /\ C7_HHMMOrAbsent(Detailed.rows[1].weekday_end)

----------------------------------------------------------------------------
(* The overview of two segments *)

MaxOffset == 3

\* raw TOTAL_SPACES of a segment
SegmentTotals == {Dec(-3, 0), Dec(0, 0), Dec(2, 0)}

\* an east-west segment at the origin and a north-south one a, b lattice
\* steps east and north of it
TwoSegments(a, b, t1, t2) ==
    Table(StreetColumns,
          <<[StreetFeature(1, TRUE) EXCEPT !.geometry = Line(0, 0, 2, 0),
                                           !.TOTAL_SPACES = t1],
            [StreetFeature(2, TRUE) EXCEPT !.geometry = Line(2 * a, 2 * b, 2 * a, 2 * b + 2),
                                           !.TOTAL_SPACES = t2]>>)

OverviewInit ==
    \E a \in 0..MaxOffset, b \in 0..MaxOffset, t1 \in SegmentTotals, t2 \in SegmentTotals :
        /\ inp = [fn |-> "clean_blockface_comprehensive", a |-> a, b |-> b,
                  t1 |-> t1, t2 |-> t2]
        /\ OneStreetFile(TwoSegments(a, b, t1, t2))

OverviewSpec == OverviewInit /\ [][CleanBlockfaceComprehensive]_vars

\* the geometry g lies in the box
C5_Inside(g, b) ==
    /\ b.x1 <= Min(g.x1, g.x2) /\ Max(g.x1, g.x2) <= b.x2
    /\ b.y1 <= Min(g.y1, g.y2) /\ Max(g.y1, g.y2) <= b.y2

\* the rows of street_parking_overview.geojson, none if there is no file
C5_Cells ==
    IF cleanDir["street_parking_overview"].k = "table"
    THEN cleanDir["street_parking_overview"].rows ELSE <<>>

\* the segment is covered: each grid cell it touches is an overview cell,
\* and those cells' total_spaces sum to at least its own
C5_Covered(seg, grid, cells) ==
    /\ \A c \in 1..Len(grid) :
          Intersects(grid[c], seg.geometry) =>
              \E j \in 1..Len(cells) : cells[j].geometry = grid[c]
    /\ SumOver(cells, {j \in 1..Len(cells) : Intersects(cells[j].geometry, seg.geometry)},
               "total_spaces") >= seg.total_spaces

\* C5: for each cleaned segment that lies inside one cell of the grid, the
\* overview holds the cells the segment touches and their total_spaces sum to
\* at least the segment's.
C5_OverviewCoversSegments ==
    DetailedWritten =>
        \A i \in 1..Len(Detailed.rows) :
            (\E c \in 1..Len(GridCells(Detailed, GridSize)) :
                C5_Inside(Detailed.rows[i].geometry, GridCells(Detailed, GridSize)[c]))
            => C5_Covered(Detailed.rows[i], GridCells(Detailed, GridSize), C5_Cells)

----------------------------------------------------------------------------
(* The pipeline on sources whose features have null and invalid geometries  *)

MaxGeomRows == 2

\* the geometry g as a file may hold it: missing, as it is, or with a defect
\* that is_valid reports
GeometryCases(g) == {Null, g, [g EXCEPT !.valid = FALSE]}

\* the tables whose i-th row is features[i] with any such geometry
WithGeometryCases(cols, features) ==
    {Table(cols, [i \in 1..Len(features) |-> [features[i] EXCEPT !.geometry = gs[i]]]) :
        gs \in {c \in [1..Len(features) -> UNION {GeometryCases(features[i].geometry) :
                                                     i \in 1..Len(features)}] :
                   \A i \in 1..Len(features) : c[i] \in GeometryCases(features[i].geometry)}}

GeometryInit ==
    /\ \E n \in 1..MaxGeomRows, m \in 1..MaxGeomRows :
       \E s \in WithGeometryCases(StreetColumns, [i \in 1..n |-> StreetFeature(i, TRUE)]),
          t \in {NoFile} \cup WithGeometryCases(TierColumns,
                                                (CHOOSE f \in TierTables : TRUE).rows),
          g \in WithGeometryCases(GarageColumns,
                                  [i \in 1..m |-> GarageFeature(i, GarageColumns)]) :
          rawDir = [parking_categories |-> s, parking_tiers |-> t, garages |-> g]
    /\ cleanDir = [o \in Outputs |-> NoFile]
    /\ emptyWriteRaises \in BOOLEAN
    /\ pc = "street"
    /\ runNo = 1
    /\ stagesRun = <<>>
    /\ ret = NoReturns
    /\ report = NoReport
    /\ prevDir = [o \in Outputs |-> NoFile]
    /\ inp = NoCall
    /\ out = NoCall

GeometrySpec == GeometryInit /\ [][Next]_vars

\* C11: every feature of every file in clean_dir has a geometry, and a valid
\* one, whatever geometries the sources' features have.
C11_OutputGeometriesValid ==
    \A o \in Outputs :
        cleanDir[o].k = "table" =>
            \A i \in 1..Len(cleanDir[o].rows) :
                /\ cleanDir[o].rows[i].geometry.k # "null"
                /\ cleanDir[o].rows[i].geometry.valid

====
